---- MODULE Spec2Model ----
(***************************************************************************)
(* Request validation and unmarshalling pipeline of openapi-core.          *)
(*                                                                         *)
(* One orchestrator instance (a concrete V30/V31 request unmarshaller      *)
(* class over one contract document) serves one request object.  The       *)
(* entry points unmarshal, iter_errors and validate are the actions; the   *)
(* stages they call (_find_path, _get_security, _get_parameters,           *)
(* _get_body) are operators computed as the code computes them.  Every     *)
(* stage outcome carries the value or the raised exception, and a log of   *)
(* what was invoked on the way.                                            *)
(***************************************************************************)
EXTENDS Integers, Sequences, FiniteSets, TLC

\* ------------------------------------------------------------------------
\* Bounds of the explored inputs
\* ------------------------------------------------------------------------
\* total number of parameter descriptors declared (operation + path item)
MaxParams == 2
\* number of alternatives in a security requirement
MaxAlternatives == 2

\* ------------------------------------------------------------------------
\* Python values
\* ------------------------------------------------------------------------
None == "None"
EmptyMap == << >>

Put(m, k, v) == [x \in (DOMAIN m) \cup {k} |-> IF x = k THEN v ELSE m[x]]

\* the value of F at e, with e evaluated once
Let(e, F(_)) == CHOOSE y \in {F(x) : x \in {e}} : TRUE

\* all mappings from a subset of keys to vals
Mappings(keys, vals) == UNION {[S -> vals] : S \in SUBSET keys}

\* all sequences over S of length 0..n
SeqsUpTo(S, n) == UNION {[1..k -> S] : k \in 0..n}

\* sequences without repeated elements
IsInjective(s) == \A i, j \in DOMAIN s : s[i] = s[j] => i = j

Range(s) == {s[i] : i \in DOMAIN s}

\* ------------------------------------------------------------------------
\* Exceptions.  Every exception is a record of one shape:
\*   type     the class raised
\*   name     parameter name (parameter errors)
\*   location parameter location (parameter errors)
\*   schemes  scheme-name combinations attempted (SecurityNotFound)
\*   cause    the class of the wrapped low-level failure, or None
\* ------------------------------------------------------------------------
Exc(type, name, location, schemes, cause) ==
    [type |-> type, name |-> name, location |-> location,
     schemes |-> schemes, cause |-> cause]

NoExc == Exc(None, None, None, << >>, None)

PathError == Exc("PathError", None, None, << >>, None)
KeyError == Exc("KeyError", None, None, << >>, None)
CastError == Exc("CastError", None, None, << >>, None)
SecurityProviderError == Exc("SecurityProviderError", None, None, << >>, None)
SecurityNotFound(schemes) == Exc("SecurityNotFound", None, None, schemes, None)
MissingParameter(name, location) ==
    Exc("MissingParameter", name, location, << >>, None)
MissingRequiredParameter(name, location) ==
    Exc("MissingRequiredParameter", name, location, << >>, None)
MissingRequestBody == Exc("MissingRequestBody", None, None, << >>, None)
MissingRequiredRequestBody ==
    Exc("MissingRequiredRequestBody", None, None, << >>, None)
MediaTypeNotFound == Exc("MediaTypeNotFound", None, None, << >>, None)
InvalidSchemaValue == Exc("InvalidSchemaValue", None, None, << >>, None)

\* exception class hierarchy (isinstance tests used by the except clauses)
ParameterValidationError ==
    {"ParameterValidationError", "InvalidParameter",
     "MissingParameter", "MissingRequiredParameter"}
RequestBodyValidationError ==
    {"RequestBodyValidationError", "InvalidRequestBody",
     "MissingRequestBody", "MissingRequiredRequestBody"}
SecurityValidationError == {"SecurityValidationError", "InvalidSecurity"}
\* names under which the unmarshallers import the same classes
RequestBodyError == RequestBodyValidationError
SecurityError == SecurityValidationError
\* failures of schema validation, as opposed to other OpenAPI errors
ValidateError == {"InvalidSchemaValue"}

IsInstance(exc, cls) == exc.type \in cls

\* outcome of a call: a returned value, or a raised exception; log is the
\* sequence of collaborator invocations the call made
Return(v, log) == [ok |-> TRUE, value |-> v, exc |-> NoExc, log |-> log]
Raise(e, log) == [ok |-> FALSE, value |-> None, exc |-> e, log |-> log]

\* ValidationErrorWrapper(err_cls, err_validate_cls): an exception that is
\* already an err_cls passes; a schema validation failure becomes
\* err_validate_cls, any other OpenAPI error becomes err_cls; the wrapped
\* exception is kept as the cause (and its name/location by from_spec)
WrapError(err_cls_name, err_cls, err_validate_cls_name, out, name, location) ==
    IF out.ok \/ IsInstance(out.exc, err_cls) THEN out
    ELSE IF IsInstance(out.exc, ValidateError)
    THEN Raise(Exc(err_validate_cls_name, name, location,
                   out.exc.schemes, out.exc.type), out.log)
    ELSE Raise(Exc(err_cls_name, name, location,
                   out.exc.schemes, out.exc.type), out.log)

ValidationErrorWrapper(err_cls_name, err_cls, err_validate_cls_name, call, name, location) ==
    Let(call, LAMBDA out : WrapError(err_cls_name, err_cls, err_validate_cls_name, out, name, location))

\* ------------------------------------------------------------------------
\* Contract document and request
\* ------------------------------------------------------------------------
\* locations of RequestParameters / Parameters
Locations == {"query", "header", "path", "cookie"}

\* Parameters(): four empty mappings
Parameters == [l \in Locations |-> EmptyMap]

\* raw parameter values as they appear in the request
RawValues == {"42", "abc"}

\* schema caster followed by the schema validator/unmarshaller of a parameter:
\* an integer schema turns "42" into the integer, rejects "abc"; a string
\* schema keeps the text
ConvertSchemaValue(schema, raw) ==
    IF schema = "integer"
    THEN IF raw = "42" THEN Return("int:" \o raw, << >>)
         ELSE Raise(CastError, << >>)
    ELSE Return("str:" \o raw, << >>)

\* _get_param_or_header: KeyError when the location has no such name,
\* otherwise deserialize, cast and validate the raw value
_get_param_or_header(param, location, name) ==
    IF name \notin DOMAIN location THEN Raise(KeyError, << >>)
    ELSE ConvertSchemaValue(param.schema, location[name])

\* a _get_parameter that takes no account of the required flag
_get_parameter_inner_required_ignored(parameters, param) ==
    LET name == param.name
        warned == IF param.deprecated THEN << <<"warn", name>> >> ELSE << >>
    IN  Let(_get_param_or_header(param, parameters[param.in], name), LAMBDA r :
            IF r.ok THEN Return(r.value, warned)
            ELSE IF r.exc.type = "KeyError"
            THEN Raise(MissingParameter(name, param.in), warned)
            ELSE Raise(r.exc, warned))

\* a _get_parameter for which a deprecated parameter is a failure
_get_parameter_inner_deprecated_fatal(parameters, param) ==
    IF param.deprecated
    THEN Raise(Exc("DeprecationWarning", param.name, param.in, << >>, None), << <<"warn", param.name>> >>)
    ELSE Let(_get_param_or_header(param, parameters[param.in], param.name), LAMBDA r :
            IF r.ok THEN r
            ELSE IF r.exc.type = "KeyError"
            THEN IF param.required
                 THEN Raise(MissingRequiredParameter(param.name, param.in), << >>)
                 ELSE Raise(MissingParameter(param.name, param.in), << >>)
            ELSE r)

\* body of _get_parameter, before the ValidationErrorWrapper decorator
_get_parameter_inner(parameters, param) ==
    LET name == param.name
        deprecated == param.deprecated
        warned == IF deprecated THEN << <<"warn", name>> >> ELSE << >>
        param_location == param.in
        location == parameters[param_location]
    IN  Let(_get_param_or_header(param, location, name), LAMBDA r :
            IF r.ok THEN Return(r.value, warned)
            ELSE IF r.exc.type = "KeyError"
            THEN LET required == param.required
                 IN  IF required
                     THEN Raise(MissingRequiredParameter(name, param_location), warned)
                     ELSE Raise(MissingParameter(name, param_location), warned)
            ELSE Raise(r.exc, warned))

_get_parameter(parameters, param) ==
    ValidationErrorWrapper("ParameterValidationError", ParameterValidationError, "InvalidParameter", _get_parameter_inner(parameters, param), param.name, param.in)

\* a loop body that stores the raw value of a parameter that failed
VisitParam_keeping_failed(parameters, param, st) ==
    IF <<param.name, param.in>> \in st.seen
    THEN st
    ELSE Let(_get_parameter(parameters, param), LAMBDA r :
            LET seen1 == st.seen \cup {<<param.name, param.in>>}
                log1 == st.log \o << <<"param", param.name, param.in>> >> \o r.log
            IN  IF r.ok
                THEN [errors |-> st.errors, seen |-> seen1, validated |-> [st.validated EXCEPT ![param.in] = Put(@, param.name, r.value)], log |-> log1]
                ELSE IF r.exc.type = "MissingParameter"
                THEN [errors |-> st.errors, seen |-> seen1, validated |-> st.validated, log |-> log1]
                ELSE [errors |-> Append(st.errors, r.exc), seen |-> seen1, validated |-> [st.validated EXCEPT ![param.in] = Put(@, param.name, None)], log |-> log1])

\* one iteration of the for loop of _get_parameters: the loop's variables
\* (errors, seen, validated) after visiting param, given them before
VisitParam(parameters, param, st) ==
    LET param_name == param.name
        param_location == param.in
    IN  IF <<param_name, param_location>> \in st.seen
        THEN st
        ELSE Let(_get_parameter(parameters, param), LAMBDA r :
                LET seen1 == st.seen \cup {<<param_name, param_location>>}
                    log1 == st.log \o << <<"param", param_name, param_location>> >> \o r.log
                IN  IF r.ok
                    THEN [errors |-> st.errors, seen |-> seen1, validated |-> [st.validated EXCEPT ![param_location] = Put(@, param_name, r.value)], log |-> log1]
                    ELSE IF r.exc.type = "MissingParameter"
                    THEN [errors |-> st.errors, seen |-> seen1, validated |-> st.validated, log |-> log1]
                    ELSE [errors |-> Append(st.errors, r.exc), seen |-> seen1, validated |-> st.validated, log |-> log1])

\* the for loop of _get_parameters over params_iter from index i on
RECURSIVE _get_parameters_loop(_, _, _, _)
_get_parameters_loop(parameters, params_iter, i, st) ==
    IF i > Len(params_iter) THEN st
    ELSE Let(VisitParam(parameters, params_iter[i], st), LAMBDA st1 :
            _get_parameters_loop(parameters, params_iter, i + 1, st1))

\* ParametersError(errors, parameters)
ParametersError(errors, parameters) == [type |-> "ParametersError", errors |-> errors, parameters |-> parameters]

\* a _get_parameters whose ParametersError does not carry the parameters
\* validated so far
_get_parameters_of_discarding(parameters, params_iter) ==
    Let(_get_parameters_loop(parameters, params_iter, 1, [errors |-> << >>, seen |-> {}, validated |-> Parameters, log |-> << >>]), LAMBDA r :
        IF r.errors # << >>
        THEN [ok |-> FALSE, value |-> Parameters, exc |-> ParametersError(r.errors, Parameters), log |-> r.log]
        ELSE [ok |-> TRUE, value |-> r.validated, exc |-> ParametersError(<< >>, r.validated), log |-> r.log])

\* the loop of _get_parameters over params_iter and what follows it:
\* returns the validated Parameters, or raises ParametersError carrying the
\* errors and the parameters validated so far
_get_parameters_of(parameters, params_iter) ==
    Let(_get_parameters_loop(parameters, params_iter, 1, [errors |-> << >>, seen |-> {}, validated |-> Parameters, log |-> << >>]), LAMBDA r :
        IF r.errors # << >>
        THEN [ok |-> FALSE, value |-> r.validated, exc |-> ParametersError(r.errors, r.validated), log |-> r.log]
        ELSE [ok |-> TRUE, value |-> r.validated, exc |-> ParametersError(<< >>, r.validated), log |-> r.log])

\* a _get_parameters that visits the path-declared descriptors first
_get_parameters_path_first(parameters, operation, path) ==
    _get_parameters_of(parameters, path.parameters \o operation.parameters)

\* _get_parameters: operation-declared descriptors, then path-declared
_get_parameters(parameters, operation, path) ==
    LET operation_params == operation.parameters
        path_params == path.parameters
        params_iter == operation_params \o path_params
    IN  _get_parameters_of(parameters, params_iter)

\* ------------------------------------------------------------------------
\* Security stage
\* ------------------------------------------------------------------------
\* the security provider created for a declared scheme: every scheme of the
\* explored contracts is an apiKey carried in the header of its own name;
\* the provider returns the header's value or fails
security_provider(parameters, scheme_name) ==
    IF scheme_name \in DOMAIN parameters.header
    THEN Return(parameters.header[scheme_name], << <<"provider", scheme_name>> >>)
    ELSE Raise(SecurityProviderError, << <<"provider", scheme_name>> >>)

\* a _get_security_value that takes a failing provider for no credential
_get_security_value_lenient(spec, parameters, scheme_name) ==
    IF scheme_name \notin spec.securitySchemes THEN Return(None, << >>)
    ELSE Let(security_provider(parameters, scheme_name), LAMBDA r :
            IF r.ok THEN r ELSE Return(None, r.log))

\* a _get_security_value for which a scheme name the document does not
\* declare is a provider failure
_get_security_value_strict(spec, parameters, scheme_name) ==
    IF scheme_name \notin spec.securitySchemes THEN Raise(SecurityProviderError, << >>)
    ELSE security_provider(parameters, scheme_name)

\* _get_security_value: None for a scheme name the document does not
\* declare, otherwise what the scheme's provider extracts
_get_security_value(spec, parameters, scheme_name) ==
    LET security_schemes == spec.securitySchemes
    IN  IF scheme_name \notin security_schemes THEN Return(None, << >>)
        ELSE security_provider(parameters, scheme_name)

\* the dict comprehension of _get_security over scheme_names from index j
\* on: stops at the first provider that fails
RECURSIVE _get_security_values(_, _, _, _, _, _)
_get_security_values(spec, parameters, scheme_names, j, acc, log) ==
    IF j > Len(scheme_names) THEN Return(acc, log)
    ELSE Let(_get_security_value(spec, parameters, scheme_names[j]), LAMBDA r :
            IF r.ok
            THEN Let([acc |-> Put(acc, scheme_names[j], r.value), log |-> log \o r.log], LAMBDA n :
                    _get_security_values(spec, parameters, scheme_names, j + 1, n.acc, n.log))
            ELSE Raise(r.exc, log \o r.log))

\* a for loop of _get_security that gives up at the first alternative that
\* fails
_get_security_loop_giving_up(spec, parameters, security, i, schemes, log) ==
    IF i > Len(security) THEN Raise(SecurityNotFound(schemes), log)
    ELSE Let(_get_security_values(spec, parameters, security[i], 1, EmptyMap, Append(log, <<"alternative", i>>)), LAMBDA r :
            IF r.ok THEN r
            ELSE IF r.exc.type = "SecurityProviderError"
            THEN Raise(SecurityNotFound(Append(schemes, security[i])), r.log)
            ELSE r)

\* the for loop of _get_security over the alternatives from index i on
RECURSIVE _get_security_loop(_, _, _, _, _, _)
_get_security_loop(spec, parameters, security, i, schemes, log) ==
    IF i > Len(security) THEN Raise(SecurityNotFound(schemes), log)
    ELSE LET scheme_names == security[i]
         IN  Let(_get_security_values(spec, parameters, scheme_names, 1, EmptyMap, Append(log, <<"alternative", i>>)), LAMBDA r :
                IF r.ok THEN r
                ELSE IF r.exc.type = "SecurityProviderError"
                THEN Let(Append(schemes, scheme_names), LAMBDA schemes1 :
                        _get_security_loop(spec, parameters, security, i + 1, schemes1, r.log))
                ELSE r)

\* a "security" key that is not there (None in the code)
Undeclared == [declared |-> FALSE, alternatives |-> << >>]

\* a _get_security in which the document-level requirement, when declared,
\* overrides the operation's
_get_security_inner_document_first(spec, parameters, operation) ==
    LET security1 == IF operation.security.declared THEN operation.security ELSE Undeclared
        security == IF spec.security.declared THEN spec.security ELSE security1
    IN  IF ~security.declared \/ Len(security.alternatives) = 0
        THEN Return(EmptyMap, << >>)
        ELSE _get_security_loop(spec, parameters, security.alternatives, 1, << >>, << >>)

\* body of _get_security, before the ValidationErrorWrapper decorator
_get_security_inner(spec, parameters, operation) ==
    LET security0 == Undeclared
        security1 == IF spec.security.declared THEN spec.security ELSE security0
        security == IF operation.security.declared THEN operation.security ELSE security1
    IN  IF ~security.declared \/ Len(security.alternatives) = 0
        THEN Return(EmptyMap, << >>)
        ELSE _get_security_loop(spec, parameters, security.alternatives, 1, << >>, << >>)

_get_security(spec, parameters, operation) ==
    ValidationErrorWrapper("SecurityValidationError", SecurityValidationError, "InvalidSecurity", _get_security_inner(spec, parameters, operation), None, None)

\* ------------------------------------------------------------------------
\* Body stage
\* ------------------------------------------------------------------------
\* _get_body_value: an empty or absent body is MissingRequiredRequestBody
\* when the declaration is required, MissingRequestBody otherwise
_get_body_value(body, request_body) ==
    IF body = None \/ body = ""
    THEN IF request_body.required
         THEN Raise(MissingRequiredRequestBody, << >>)
         ELSE Raise(MissingRequestBody, << >>)
    ELSE Return(body, << >>)

\* _convert_content_schema_value: content negotiation on the mimetype, then
\* deserialize, cast and validate the payload against the entry's schema
_convert_content_schema_value(raw, content, mimetype) ==
    IF mimetype \notin content /\ "*/*" \notin content
    THEN Raise(MediaTypeNotFound, << <<"negotiate", mimetype>> >>)
    ELSE IF raw = "bad"
    THEN Raise(InvalidSchemaValue, << <<"negotiate", mimetype>>, <<"convert", raw>> >>)
    ELSE Return("obj:" \o raw, << <<"negotiate", mimetype>>, <<"convert", raw>> >>)

\* a _get_body that does not look whether the operation declares a body
_get_body_inner_undeclared_inspected(body, mimetype, operation) ==
    Let(_get_body_value(body, operation.requestBody), LAMBDA raw_body :
        IF raw_body.ok
        THEN _convert_content_schema_value(raw_body.value, operation.requestBody.content, mimetype)
        ELSE raw_body)

\* body of _get_body, before the ValidationErrorWrapper decorator
_get_body_inner(body, mimetype, operation) ==
    IF ~operation.requestBody.declared THEN Return(None, << >>)
    ELSE LET request_body == operation.requestBody
             content == request_body.content
         IN  Let(_get_body_value(body, request_body), LAMBDA raw_body :
                IF raw_body.ok
                THEN _convert_content_schema_value(raw_body.value, content, mimetype)
                ELSE raw_body)

_get_body(body, mimetype, operation) ==
    ValidationErrorWrapper("RequestBodyValidationError", RequestBodyValidationError, "InvalidRequestBody", _get_body_inner(body, mimetype, operation), None, None)

\* ------------------------------------------------------------------------
\* Path resolution
\* ------------------------------------------------------------------------
\* the concrete orchestrator classes: dialect/family x facet
Families == {"V30Request", "V31Request", "V31WebhookRequest"}
Facets == {"Full", "Body", "Parameters", "Security"}
Classes == [family : Families, facet : Facets]

\* path_finder_cls of the class: the webhook classes and V31RequestValidator
\* set WebhookPathFinder, every other class keeps the API-call default
path_finder_cls(cls) ==
    IF cls.family = "V31WebhookRequest" THEN "WebhookPathFinder"
    ELSE IF cls.family = "V31Request" /\ cls.facet = "Full" THEN "WebhookPathFinder"
    ELSE "APICallPathFinder"

\* the variables a path template extracts from a URL it matches
PathVariables(target) ==
    IF target = "/pets/42" THEN [id |-> "42"]
    ELSE IF target = "/pets/abc" THEN [id |-> "abc"]
    ELSE EmptyMap

\* a path template matches a URL
Matches(template, target) ==
    \/ template = "/pets/{id}" /\ target \in {"/pets/42", "/pets/abc"}
    \/ template = "/pets" /\ target = "/pets"

\* _find_path: the class's finder looks the request up among the server
\* paths or among the webhooks of the document; PathError when none matches
_find_path(spec, cls, request) ==
    IF path_finder_cls(cls) = "WebhookPathFinder"
    THEN IF request.target \in spec.webhooks
         THEN Return([path |-> spec.path, operation |-> spec.operation, variables |-> EmptyMap], << >>)
         ELSE Raise(PathError, << >>)
    ELSE IF \E t \in spec.paths : Matches(t, request.target)
         THEN Return([path |-> spec.path, operation |-> spec.operation, variables |-> PathVariables(request.target)], << >>)
         ELSE Raise(PathError, << >>)

\* an assignment that always takes the variables of the path result
PopulatePath_overwriting(request, variables) ==
    [request EXCEPT !.parameters.path = variables]

\* request.parameters.path = request.parameters.path or path_result.variables
PopulatePath(request, variables) ==
    [request EXCEPT !.parameters.path = IF @ # EmptyMap THEN @ ELSE variables]

\* ------------------------------------------------------------------------
\* Unmarshalling pipeline
\* ------------------------------------------------------------------------
\* an optional field of the result: absent, or present with a value
Absent == << >>
Some(v) == << v >>

\* RequestUnmarshalResult(errors, body, parameters, security); a field the
\* constructor call does not pass stays absent (body: None)
RequestUnmarshalResult(errors, body, parameters, security) ==
    [errors |-> errors, body |-> body, parameters |-> parameters, security |-> security]

\* outcome of a pipeline call: the result returned, or the exception that
\* escaped it, and the stages it went through
Returned(result, log) == [raised |-> NoExc, result |-> result, log |-> log]
Escaped(exc, log) ==
    [raised |-> exc, result |-> RequestUnmarshalResult(<< >>, None, Absent, Absent), log |-> log]

\* a try/except around _get_body that handles MissingRequestBody only
BodyOutcome_missing_only(b) ==
    IF b.ok THEN [body |-> b.value, body_errors |-> << >>, escaped |-> FALSE]
    ELSE IF b.exc.type = "MissingRequestBody"
    THEN [body |-> None, body_errors |-> << >>, escaped |-> FALSE]
    ELSE [body |-> None, body_errors |-> << >>, escaped |-> TRUE]

\* the try/except around _get_body of _unmarshal and _unmarshal_body
\* what the unmarshallers make of the body stage's outcome
BodyOutcome(b) ==
    IF b.ok THEN [body |-> b.value, body_errors |-> << >>, escaped |-> FALSE]
    ELSE IF b.exc.type = "MissingRequestBody"
    THEN [body |-> None, body_errors |-> << >>, escaped |-> FALSE]
    ELSE IF IsInstance(b.exc, RequestBodyError)
    THEN [body |-> None, body_errors |-> << b.exc >>, escaped |-> FALSE]
    ELSE [body |-> None, body_errors |-> << >>, escaped |-> TRUE]

\* an _unmarshal that does not resolve the body once a parameter failed
UnmarshalParametersAndBody_stopping(sec, p, b) ==
    LET log == << <<"stage", "security">> >> \o sec.log \o << <<"stage", "parameters">> >> \o p.log
    IN  IF p.ok
        THEN Let(BodyOutcome(b), LAMBDA bo :
                IF bo.escaped THEN Escaped(b.exc, log \o << <<"stage", "body">> >> \o b.log)
                ELSE Returned(RequestUnmarshalResult(bo.body_errors, bo.body, Some(p.value), Some(sec.value)), log \o << <<"stage", "body">> >> \o b.log))
        ELSE Returned(RequestUnmarshalResult(p.exc.errors, None, Some(p.exc.parameters), Some(sec.value)), log)

\* _unmarshal after the security stage returned sec.value
UnmarshalParametersAndBody(sec, p, b) ==
    LET params == IF p.ok THEN p.value ELSE p.exc.parameters
        params_errors == IF p.ok THEN << >> ELSE p.exc.errors
        bo == BodyOutcome(b)
        log == << <<"stage", "security">> >> \o sec.log \o << <<"stage", "parameters">> >> \o p.log \o << <<"stage", "body">> >> \o b.log
        errors == params_errors \o bo.body_errors
    IN  IF bo.escaped THEN Escaped(b.exc, log)
        ELSE Returned(RequestUnmarshalResult(errors, bo.body, Some(params), Some(sec.value)), log)

\* an _unmarshal that goes on to the parameters and the body after a
\* security error
_unmarshal_past_security_error(spec, request, operation, path) ==
    Let(_get_security(spec, request.parameters, operation), LAMBDA sec :
        Let(_get_parameters(request.parameters, operation, path), LAMBDA p :
        Let(_get_body(request.body, request.mimetype, operation), LAMBDA b :
            IF sec.ok THEN UnmarshalParametersAndBody(sec, p, b)
            ELSE Let(UnmarshalParametersAndBody(sec, p, b), LAMBDA u :
                    Returned(RequestUnmarshalResult(<< sec.exc >> \o u.result.errors, u.result.body, u.result.parameters, Absent), u.log)))))

_unmarshal(spec, request, operation, path) ==
    Let(_get_security(spec, request.parameters, operation), LAMBDA sec :
        IF ~sec.ok
        THEN IF IsInstance(sec.exc, SecurityError)
             THEN Returned(RequestUnmarshalResult(<< sec.exc >>, None, Absent, Absent), << <<"stage", "security">> >> \o sec.log)
             ELSE Escaped(sec.exc, << <<"stage", "security">> >> \o sec.log)
        ELSE Let(_get_parameters(request.parameters, operation, path), LAMBDA p :
             Let(_get_body(request.body, request.mimetype, operation), LAMBDA b :
                UnmarshalParametersAndBody(sec, p, b))))

_unmarshal_body(spec, request, operation, path) ==
    Let(_get_body(request.body, request.mimetype, operation), LAMBDA b :
        LET bo == BodyOutcome(b)
            log1 == << <<"stage", "body">> >> \o b.log
        IN  IF bo.escaped THEN Escaped(b.exc, log1)
            ELSE Returned(RequestUnmarshalResult(bo.body_errors, bo.body, Absent, Absent), log1))

_unmarshal_parameters(spec, request, operation, path) ==
    Let(_get_parameters(request.parameters, path, operation), LAMBDA p :
        LET params == IF p.ok THEN p.value ELSE p.exc.parameters
            params_errors == IF p.ok THEN << >> ELSE p.exc.errors
            log1 == << <<"stage", "parameters">> >> \o p.log
        IN  Returned(RequestUnmarshalResult(params_errors, None, Some(params), Absent), log1))

_unmarshal_security(spec, request, operation, path) ==
    Let(_get_security(spec, request.parameters, operation), LAMBDA sec :
        LET log1 == << <<"stage", "security">> >> \o sec.log
        IN  IF ~sec.ok
            THEN IF IsInstance(sec.exc, SecurityError)
                 THEN Returned(RequestUnmarshalResult(<< sec.exc >>, None, Absent, Absent), log1)
                 ELSE Escaped(sec.exc, log1)
            ELSE Returned(RequestUnmarshalResult(<< >>, None, Absent, Some(sec.value)), log1))

\* an unmarshal that writes the validated path parameters back into
\* request.parameters.path
UnmarshalFound_writing_back(spec, cls, request1, operation, path) ==
    Let(CASE cls.facet = "Full" -> _unmarshal(spec, request1, operation, path)
          [] cls.facet = "Body" -> _unmarshal_body(spec, request1, operation, path)
          [] cls.facet = "Parameters" -> _unmarshal_parameters(spec, request1, operation, path)
          [] cls.facet = "Security" -> _unmarshal_security(spec, request1, operation, path), LAMBDA out :
        [request |-> IF out.result.parameters = Absent THEN request1
                     ELSE [request1 EXCEPT !.parameters.path = out.result.parameters[1].path],
         out |-> out])

\* an unmarshal whose partial classes run the whole pipeline
UnmarshalFound_always_full(spec, cls, request1, operation, path) ==
    [request |-> request1, out |-> _unmarshal(spec, request1, operation, path)]

\* what unmarshal does once the path is found: populate
\* request.parameters.path, run the facet's pipeline
UnmarshalFound(spec, cls, request1, operation, path) ==
    [request |-> request1,
     out |-> CASE cls.facet = "Full" -> _unmarshal(spec, request1, operation, path)
               [] cls.facet = "Body" -> _unmarshal_body(spec, request1, operation, path)
               [] cls.facet = "Parameters" -> _unmarshal_parameters(spec, request1, operation, path)
               [] cls.facet = "Security" -> _unmarshal_security(spec, request1, operation, path)]

\* an unmarshal that runs the facet's pipeline on the first declared
\* operation after a path error
unmarshal_past_path_error(spec, cls, request) ==
    Let(_find_path(spec, cls, request), LAMBDA found :
        IF ~found.ok
        THEN Let(UnmarshalFound(spec, cls, request, spec.operation, spec.path), LAMBDA u :
                [request |-> request, out |-> Returned(RequestUnmarshalResult(<< found.exc >> \o u.out.result.errors, u.out.result.body, u.out.result.parameters, u.out.result.security), u.out.log)])
        ELSE Let(PopulatePath(request, found.value.variables), LAMBDA request1 :
                UnmarshalFound(spec, cls, request1, found.value.operation, found.value.path)))

\* unmarshal of the class.  Yields the call's outcome and the request as the
\* call leaves it.
unmarshal(spec, cls, request) ==
    Let(_find_path(spec, cls, request), LAMBDA found :
        IF ~found.ok
        THEN [request |-> request, out |-> Returned(RequestUnmarshalResult(<< found.exc >>, None, Absent, Absent), << >>)]
        ELSE Let(PopulatePath(request, found.value.variables), LAMBDA request1 :
                UnmarshalFound(spec, cls, request1, found.value.operation, found.value.path)))

\* ------------------------------------------------------------------------
\* Validation pipeline
\* ------------------------------------------------------------------------
\* outcome of consuming an error generator to its end: the errors yielded,
\* the exception that escaped it (if any), and the stages it went through
Yielded(errors, log) == [raised |-> NoExc, errors |-> errors, log |-> log]
Broke(errors, exc, log) == [raised |-> exc, errors |-> errors, log |-> log]

\* _iter_errors after the security stage passed
IterParametersAndBody(sec, p, b) ==
    LET params_errors == IF p.ok THEN << >> ELSE p.exc.errors
        log == << <<"stage", "security">> >> \o sec.log \o << <<"stage", "parameters">> >> \o p.log \o << <<"stage", "body">> >> \o b.log
    IN  IF b.ok THEN Yielded(params_errors, log)
        ELSE IF IsInstance(b.exc, RequestBodyValidationError)
        THEN Yielded(Append(params_errors, b.exc), log)
        ELSE Broke(params_errors, b.exc, log)

_iter_errors(spec, request, operation, path) ==
    Let(_get_security(spec, request.parameters, operation), LAMBDA sec :
        IF ~sec.ok
        THEN IF IsInstance(sec.exc, SecurityValidationError)
             THEN Yielded(<< sec.exc >>, << <<"stage", "security">> >> \o sec.log)
             ELSE Broke(<< >>, sec.exc, << <<"stage", "security">> >> \o sec.log)
        ELSE Let(_get_parameters(request.parameters, operation, path), LAMBDA p :
             Let(_get_body(request.body, request.mimetype, operation), LAMBDA b :
                IterParametersAndBody(sec, p, b))))

_iter_body_errors(spec, request, operation) ==
    Let(_get_body(request.body, request.mimetype, operation), LAMBDA b :
        LET log1 == << <<"stage", "body">> >> \o b.log
        IN  IF b.ok THEN Yielded(<< >>, log1)
            ELSE IF IsInstance(b.exc, RequestBodyValidationError)
            THEN Yielded(<< b.exc >>, log1)
            ELSE Broke(<< >>, b.exc, log1))

_iter_parameters_errors(spec, request, operation, path) ==
    Let(_get_parameters(request.parameters, path, operation), LAMBDA p :
        LET log1 == << <<"stage", "parameters">> >> \o p.log
        IN  IF p.ok THEN Yielded(<< >>, log1) ELSE Yielded(p.exc.errors, log1))

_iter_security_errors(spec, request, operation) ==
    Let(_get_security(spec, request.parameters, operation), LAMBDA sec :
        LET log1 == << <<"stage", "security">> >> \o sec.log
        IN  IF sec.ok THEN Yielded(<< >>, log1)
            ELSE IF IsInstance(sec.exc, SecurityValidationError)
            THEN Yielded(<< sec.exc >>, log1)
            ELSE Broke(<< >>, sec.exc, log1))

\* what iter_errors does once the path is found.  The full and the
\* parameters validators populate request.parameters.path, the body and the
\* security validators leave the request alone.
IterFound(spec, cls, request, request1, operation, path) ==
    CASE cls.facet = "Full" -> [request |-> request1, out |-> _iter_errors(spec, request1, operation, path)]
      [] cls.facet = "Parameters" -> [request |-> request1, out |-> _iter_parameters_errors(spec, request1, operation, path)]
      [] cls.facet = "Body" -> [request |-> request, out |-> _iter_body_errors(spec, request, operation)]
      [] cls.facet = "Security" -> [request |-> request, out |-> _iter_security_errors(spec, request, operation)]

\* iter_errors of the class, consumed to its end.  Yields the errors and
\* the request as the call leaves it.
iter_errors(spec, cls, request) ==
    Let(_find_path(spec, cls, request), LAMBDA found :
        IF ~found.ok
        THEN [request |-> request, out |-> Yielded(<< found.exc >>, << >>)]
        ELSE Let(PopulatePath(request, found.value.variables), LAMBDA request1 :
                IterFound(spec, cls, request, request1, found.value.operation, found.value.path)))

\* a validate that consumes iter_errors and raises the last error
validate_raising_last(spec, cls, request) ==
    Let(iter_errors(spec, cls, request), LAMBDA it :
        [request |-> it.request,
         raised |-> IF it.out.errors # << >> THEN it.out.errors[Len(it.out.errors)] ELSE it.out.raised])

\* validate: raises the first error iter_errors yields (or what escapes
\* it before any error), returns None when it yields nothing
validate(spec, cls, request) ==
    Let(iter_errors(spec, cls, request), LAMBDA it :
        [request |-> it.request,
         raised |-> IF it.out.errors # << >> THEN it.out.errors[1] ELSE it.out.raised])

\* ------------------------------------------------------------------------
\* Explored contract documents and requests
\* ------------------------------------------------------------------------
\* (name, location) identities of the declared parameters
ParamIdentities == {<<"id", "path">>, <<"id", "query">>, <<"q", "query">>}

Schemas == {"integer", "string"}

\* parameter descriptors of the identities ids, with the deprecated flag
\* drawn from deps
Descriptors(ids, deps) ==
    {[name |-> pi[1], in |-> pi[2], required |-> r, deprecated |-> d, schema |-> s] :
        pi \in ids, r \in BOOLEAN, d \in deps, s \in Schemas}

\* a parameter list of a document declares each (name, location) once
UniqueIdentities(l) ==
    \A i, j \in DOMAIN l : l[i].name = l[j].name /\ l[i].in = l[j].in => i = j

\* <<operation-level list, path-level list>> with n descriptors in total
ParamListsOf(D, n) ==
    {pl \in {<<SubSeq(l, 1, j), SubSeq(l, j + 1, n)>> : l \in [1..n -> D], j \in 0..n} :
        UniqueIdentities(pl[1]) /\ UniqueIdentities(pl[2])}

ParamLists(D, max) == UNION {ParamListsOf(D, n) : n \in 0..max}

NoRequestBody == [declared |-> FALSE, required |-> FALSE, content |-> {}]

RequestBodies ==
    {NoRequestBody} \cup
    [declared : {TRUE}, required : BOOLEAN, content : {{"application/json"}, {"*/*"}}]

SchemeNames == {"k1", "k2", "ghost"}
DeclaredSchemes == {"k1", "k2"}

\* one alternative: its scheme names in declaration order (none, one or two)
Alternatives ==
    {<< >>} \cup {<<a>> : a \in SchemeNames}
            \cup {ab \in SchemeNames \X SchemeNames : ab[1] # ab[2]}

\* "security" values: not declared, or a list of alternatives
Securities ==
    {Undeclared} \cup
    [declared : {TRUE}, alternatives : SeqsUpTo(Alternatives, MaxAlternatives)]

Document(security, op_security, op_params, path_params, request_body) ==
    [security |-> security,
     securitySchemes |-> DeclaredSchemes,
     paths |-> {"/pets/{id}", "/pets"},
     webhooks |-> {"newPet"},
     operation |-> [parameters |-> op_params, security |-> op_security, requestBody |-> request_body],
     path |-> [parameters |-> path_params]]

Request(target, query, header, path, body, mimetype) ==
    [target |-> target, body |-> body, mimetype |-> mimetype,
     parameters |-> [query |-> query, header |-> header, path |-> path, cookie |-> EmptyMap]]

Cls(family, facet) == [family |-> family, facet |-> facet]

\* a required integer query parameter q, and a required JSON body
RequiredQ == [name |-> "q", in |-> "query", required |-> TRUE, deprecated |-> FALSE, schema |-> "integer"]
RequiredJson == [declared |-> TRUE, required |-> TRUE, content |-> {"application/json"}]
NeedsK1 == [declared |-> TRUE, alternatives |-> << <<"k1">> >>]

\* ------------------------------------------------------------------------
\* State
\* ------------------------------------------------------------------------
VARIABLES
    document,      \* the contract document the orchestrator was built with
    cls,           \* the orchestrator's class
    request,       \* the request object, as the calls so far left it
    unmarshalled,  \* the last unmarshal(request) call and its outcome
    iterated,      \* the last iter_errors(request) call and its outcome
    validated,     \* the last validate(request) call and its outcome
    inflight       \* the unmarshal calls in progress on the orchestrator, each with its locals

vars == <<document, cls, request, unmarshalled, iterated, validated, inflight>>

NotUnmarshalled == [called |-> FALSE, out |-> Returned(RequestUnmarshalResult(<< >>, None, Absent, Absent), << >>)]
NotIterated == [called |-> FALSE, out |-> Yielded(<< >>, << >>)]
NotValidated == [called |-> FALSE, raised |-> NoExc]

\* no unmarshal call is in progress
NoInvocations == << >>

\* the orchestrator is built with document d, as class c, and handed request r
Given(d, c, r) ==
    /\ document = d
    /\ cls = c
    /\ request = r

\* parameter-centred inputs: every declaration of up to MaxParams query
\* parameters against every query mapping
InitParams ==
    \E pl \in ParamLists(Descriptors({<<"id", "query">>, <<"q", "query">>}, {FALSE}), MaxParams), f \in {"Full", "Parameters"}, q \in Mappings({"id", "q"}, RawValues) :
        Given(Document(Undeclared, Undeclared, pl[1], pl[2], NoRequestBody), Cls("V30Request", f), Request("/pets", q, EmptyMap, EmptyMap, None, "application/json"))

\* the same name declared in the path on one level and in the query on the
\* other
InitTwoLocations ==
    \E a \in Descriptors({<<"id", "path">>}, {FALSE}), b \in Descriptors({<<"id", "query">>}, {FALSE}), o \in BOOLEAN, f \in {"Full", "Parameters"}, t \in {"/pets/42", "/pets/abc"}, q \in Mappings({"id"}, RawValues) :
        Given(Document(Undeclared, Undeclared, IF o THEN << a >> ELSE << b >>, IF o THEN << b >> ELSE << a >>, NoRequestBody), Cls("V30Request", f), Request(t, q, EmptyMap, EmptyMap, None, "application/json"))

\* single declarations, also deprecated ones, also with a path value that
\* does not cast or is not there, also behind a security requirement and
\* beside a body
InitSingleParam ==
    \E pl \in ParamLists(Descriptors(ParamIdentities, BOOLEAN), 1), guarded \in BOOLEAN, f \in {"Full", "Parameters"}, t \in {"/pets", "/pets/abc"}, q \in Mappings({"q"}, RawValues) :
        Given(Document(Undeclared, IF guarded THEN NeedsK1 ELSE Undeclared, pl[1], pl[2], IF guarded THEN RequiredJson ELSE NoRequestBody), Cls("V30Request", f), Request(t, q, EmptyMap, EmptyMap, "", "application/json"))

\* security-centred inputs; the operation also declares a parameter and a
\* body the request does not carry
InitSecurity ==
    \E ds \in {Undeclared, NeedsK1}, os \in Securities, f \in {"Full", "Security"}, h \in Mappings(DeclaredSchemes, {"s3cr3t"}) :
        /\ ds = NeedsK1 => f = "Full"
        /\ Given(Document(ds, os, << RequiredQ >>, << >>, RequiredJson), Cls("V30Request", f), Request("/pets", EmptyMap, h, EmptyMap, "", "application/json"))

\* body-centred inputs
InitBody ==
    \E pl \in {<< >>, << RequiredQ >>}, rb \in RequestBodies, f \in {"Full", "Body"}, b \in {None, "", "ok", "bad"}, m \in {"application/json", "text/plain"} :
        Given(Document(Undeclared, Undeclared, pl, << >>, rb), Cls("V30Request", f), Request("/pets", EmptyMap, EmptyMap, EmptyMap, b, m))

\* a required integer query parameter id
RequiredId == [name |-> "id", in |-> "query", required |-> TRUE, deprecated |-> FALSE, schema |-> "integer"]

\* parameters declared on both levels beside a declared body: any of them
\* may fail, in the full pipeline
InitParamsAndBody ==
    \E r \in BOOLEAN, q \in Mappings({"id", "q"}, RawValues), b \in {"", "ok", "bad"}, m \in {"application/json", "text/plain"} :
        Given(Document(Undeclared, Undeclared, << RequiredQ >>, << RequiredId >>, [declared |-> TRUE, required |-> r, content |-> {"application/json"}]), Cls("V30Request", "Full"), Request("/pets", q, EmptyMap, EmptyMap, b, m))

\* routing-centred inputs: every class against URLs and webhook names
InitRouting ==
    \E s \in {Undeclared, NeedsK1}, c \in Classes, t \in {"/pets/42", "/pets", "/nope", "newPet"}, p \in {EmptyMap, [id |-> "abc"]} :
        Given(Document(s, Undeclared, << RequiredQ >>, << >>, RequiredJson), c, Request(t, EmptyMap, EmptyMap, p, "", "application/json"))

\* partial classes on an operation behind a security requirement, with a
\* parameter and a body the request may carry: the request may fail
\* security while its body or its parameter resolves
InitPartial ==
    \E f \in Facets \ {"Full"}, h \in Mappings({"k1"}, {"s3cr3t"}), q \in Mappings({"q"}, RawValues), b \in {"", "ok", "bad"} :
        Given(Document(Undeclared, NeedsK1, << RequiredQ >>, << >>, RequiredJson), Cls("V30Request", f), Request("/pets", q, h, EmptyMap, b, "application/json"))

Init ==
    /\ InitParams \/ InitTwoLocations \/ InitSingleParam \/ InitSecurity \/ InitBody \/ InitRouting \/ InitParamsAndBody \/ InitPartial
    /\ unmarshalled = NotUnmarshalled
    /\ iterated = NotIterated
    /\ validated = NotValidated
    /\ inflight = NoInvocations

\* the caller invokes unmarshal(request)
Unmarshal ==
    \E r \in {unmarshal(document, cls, request)} :
        /\ unmarshalled' = [called |-> TRUE, out |-> r.out]
        /\ request' = r.request
        /\ UNCHANGED <<document, cls, iterated, validated, inflight>>

\* the caller invokes iter_errors(request) and consumes it
IterErrors ==
    \E r \in {iter_errors(document, cls, request)} :
        /\ iterated' = [called |-> TRUE, out |-> r.out]
        /\ request' = r.request
        /\ UNCHANGED <<document, cls, unmarshalled, validated, inflight>>

\* the caller invokes validate(request)
Validate ==
    \E r \in {validate(document, cls, request)} :
        /\ validated' = [called |-> TRUE, raised |-> r.raised]
        /\ request' = r.request
        /\ UNCHANGED <<document, cls, unmarshalled, iterated, inflight>>

Next == Unmarshal \/ IterErrors \/ Validate

Spec == Init /\ [][Next]_vars

\* ------------------------------------------------------------------------
\* One orchestrator, several requests: the full pipeline's unmarshal calls
\* in progress at once, each advancing stage by stage, interleaved
\* ------------------------------------------------------------------------
\* number of unmarshal calls in progress on the one orchestrator
MaxInvocations == 2

Invocations == 1..MaxInvocations

\* errors = [], seen = set(), validated = Parameters() of _get_parameters
NewLoopVariables == [errors |-> << >>, seen |-> {}, validated |-> Parameters, log |-> << >>]

\* the locals of an unmarshal(request) call that has not begun
Frame(r) ==
    [request0 |-> r, request |-> r, pc |-> "find_path",
     sec |-> Return(EmptyMap, << >>), i |-> 1, st |-> NewLoopVariables,
     p |-> Return(Parameters, << >>),
     out |-> Returned(RequestUnmarshalResult(<< >>, None, Absent, Absent), << >>)]

\* the requests handed to the orchestrator: one that is valid, one whose
\* parameters and body are missing, one for an unknown URL, one without
\* credentials and with a parameter that does not cast
HandedRequests ==
    {Request("/pets", [q |-> "42", id |-> "42"], [k1 |-> "s3cr3t"], EmptyMap, "ok", "application/json"),
     Request("/pets", EmptyMap, [k1 |-> "s3cr3t"], EmptyMap, "", "application/json"),
     Request("/nope", [q |-> "42"], EmptyMap, EmptyMap, "ok", "application/json"),
     Request("/pets", [q |-> "abc"], EmptyMap, EmptyMap, "ok", "text/plain")}

InitInterleaved ==
    /\ \E s \in {Undeclared, NeedsK1}, pp \in {<< RequiredId >>, << [RequiredQ EXCEPT !.schema = "string"] >>} :
        /\ document = Document(s, Undeclared, << RequiredQ >>, pp, RequiredJson)
        /\ cls = Cls("V30Request", "Full")
    /\ inflight \in [Invocations -> {Frame(r) : r \in HandedRequests}]
    /\ request = Request("/pets", EmptyMap, EmptyMap, EmptyMap, None, "application/json")
    /\ unmarshalled = NotUnmarshalled
    /\ iterated = NotIterated
    /\ validated = NotValidated

\* loop variables whose seen set is kept on the orchestrator, shared by
\* the calls in progress
WorkingState_shared_seen(frames, n) ==
    [frames[n].st EXCEPT !.seen = UNION {frames[m].st.seen : m \in DOMAIN frames}]

\* params_iter = chainiters(operation_params, path_params)
ParamsIter == document.operation.parameters \o document.path.parameters

\* the loop variables call n works on: the locals of its own
\* _get_parameters call
WorkingState(frames, n) == frames[n].st

\* what _get_parameters ends with, given the loop variables after the loop
ParametersOutcome(st) ==
    IF st.errors # << >>
    THEN [ok |-> FALSE, value |-> st.validated, exc |-> ParametersError(st.errors, st.validated), log |-> st.log]
    ELSE [ok |-> TRUE, value |-> st.validated, exc |-> ParametersError(<< >>, st.validated), log |-> st.log]

\* call n advances to frame f; nothing but its locals and its request
\* changes
Advance(n, f) ==
    /\ inflight' = [inflight EXCEPT ![n] = f]
    /\ UNCHANGED <<document, cls, request, unmarshalled, iterated, validated>>

\* unmarshal, up to the call of _unmarshal
FindPath(n) ==
    /\ inflight[n].pc = "find_path"
    /\ \E found \in {_find_path(document, cls, inflight[n].request)} :
        IF ~found.ok
        THEN Advance(n, [inflight[n] EXCEPT !.pc = "done", !.out = Returned(RequestUnmarshalResult(<< found.exc >>, None, Absent, Absent), << >>)])
        ELSE Advance(n, [inflight[n] EXCEPT !.pc = "security", !.request = PopulatePath(@, found.value.variables)])

\* _unmarshal: the security stage
SecurityStep(n) ==
    /\ inflight[n].pc = "security"
    /\ \E sec \in {_get_security(document, inflight[n].request.parameters, document.operation)} :
        IF ~sec.ok
        THEN Advance(n, [inflight[n] EXCEPT !.pc = "done", !.sec = sec, !.out = Returned(RequestUnmarshalResult(<< sec.exc >>, None, Absent, Absent), << <<"stage", "security">> >> \o sec.log)])
        ELSE Advance(n, [inflight[n] EXCEPT !.pc = "parameters", !.sec = sec])

\* _get_parameters: one iteration of its loop
ParameterStep(n) ==
    /\ inflight[n].pc = "parameters"
    /\ inflight[n].i <= Len(ParamsIter)
    /\ \E st \in {VisitParam(inflight[n].request.parameters, ParamsIter[inflight[n].i], WorkingState(inflight, n))} :
        Advance(n, [inflight[n] EXCEPT !.i = @ + 1, !.st = st])

\* _get_parameters: after its loop, and the try around it in _unmarshal
ParametersDone(n) ==
    /\ inflight[n].pc = "parameters"
    /\ inflight[n].i > Len(ParamsIter)
    /\ Advance(n, [inflight[n] EXCEPT !.pc = "body", !.p = ParametersOutcome(inflight[n].st)])

\* _unmarshal: the body stage and the result
BodyStep(n) ==
    /\ inflight[n].pc = "body"
    /\ \E b \in {_get_body(inflight[n].request.body, inflight[n].request.mimetype, document.operation)} :
        Advance(n, [inflight[n] EXCEPT !.pc = "done", !.out = UnmarshalParametersAndBody(inflight[n].sec, inflight[n].p, b)])

NextInterleaved ==
    \E n \in Invocations :
        FindPath(n) \/ SecurityStep(n) \/ ParameterStep(n) \/ ParametersDone(n) \/ BodyStep(n)

SpecInterleaved == InitInterleaved /\ [][NextInterleaved]_vars

\* ------------------------------------------------------------------------
\* Vocabulary of the properties: what the requirement says of the current
\* document and request, stated without running the pipeline's stages
\* ------------------------------------------------------------------------
Operation == document.operation
Result == unmarshalled.out.result

\* the request's method and URL match an operation
Resolves == _find_path(document, cls, request).ok

\* the security requirement in force: operation-level if declared
EffectiveSecurity ==
    IF Operation.security.declared THEN Operation.security ELSE document.security

\* extraction succeeds for a scheme: its header is there, or the scheme is
\* not declared by the document (no credential, no failure)
SchemeSucceeds(s) ==
    s \notin document.securitySchemes \/ s \in DOMAIN request.parameters.header

AlternativeSucceeds(a) == \A k \in DOMAIN a : SchemeSucceeds(a[k])

SatisfiedAlternatives ==
    {i \in DOMAIN EffectiveSecurity.alternatives : AlternativeSucceeds(EffectiveSecurity.alternatives[i])}

SecurityRequired == EffectiveSecurity.declared /\ EffectiveSecurity.alternatives # << >>
SecurityFails == SecurityRequired /\ SatisfiedAlternatives = {}
SecurityPasses == ~SecurityFails

\* the stages a call went through
StagesOf(log) == {log[k][2] : k \in {n \in DOMAIN log : log[n][1] = "stage"}}

\* the entries of a log of one kind
EntriesOf(log, kind) == {k \in DOMAIN log : log[k][1] = kind}

IsSecurityFailure(e) ==
    IsInstance(e, SecurityValidationError) /\ e.cause = "SecurityNotFound"

\* errors of the body stage / of the parameter stage in a sequence of errors
BodyErrorsIn(errors) ==
    {k \in DOMAIN errors : IsInstance(errors[k], RequestBodyValidationError)}
ParameterErrorsIn(errors) ==
    {k \in DOMAIN errors : IsInstance(errors[k], ParameterValidationError)}

\* declared parameters: operation-declared, then path-declared
Chain == Operation.parameters \o document.path.parameters
Identity(d) == <<d.name, d.in>>
DeclaredIdentities == {Identity(Chain[k]) : k \in DOMAIN Chain}
Declaring(id) == {d \in Range(Chain) : Identity(d) = id}

\* the declaration that governs an identity: the operation's, else the
\* path item's
Governing(id) ==
    IF \E d \in Range(Operation.parameters) : Identity(d) = id
    THEN CHOOSE d \in Range(Operation.parameters) : Identity(d) = id
    ELSE CHOOSE d \in Range(document.path.parameters) : Identity(d) = id

\* the request carries a raw value for the identity, and what it is
RawPresent(id) == id[1] \in DOMAIN request.parameters[id[2]]
RawOf(id) == request.parameters[id[2]][id[1]]

\* the raw value passes deserialization, casting and validation under d,
\* and what it resolves to
Acceptable(d, raw) == d.schema = "string" \/ raw = "42"
Resolved(d, raw) == (IF d.schema = "integer" THEN "int:" ELSE "str:") \o raw

ParamValid(id) == RawPresent(id) /\ Acceptable(Governing(id), RawOf(id))
ParamFails(id) ==
    \/ RawPresent(id) /\ ~Acceptable(Governing(id), RawOf(id))
    \/ ~RawPresent(id) /\ Governing(id).required

\* entries and errors of an identity
HasEntry(params, id) == id[1] \in DOMAIN params[id[2]]
ErrorsFor(errors, id) ==
    {k \in DOMAIN errors : errors[k].name = id[1] /\ errors[k].location = id[2]}
VisitsOf(log, id) ==
    {k \in EntriesOf(log, "param") : log[k][2] = id[1] /\ log[k][3] = id[2]}

\* ------------------------------------------------------------------------
\* Properties
\* ------------------------------------------------------------------------

\* C1: when the request matches no operation, unmarshal returns a result
\* that holds exactly the one path error and no body, parameters or
\* security, iter_errors yields exactly that one error, and no security,
\* parameter or body stage is attempted; for every class (full, body-only,
\* parameters-only, security-only; API-call and webhook).
C1_PathErrorIsTerminal ==
    ~Resolves =>
        /\ unmarshalled.called =>
            unmarshalled.out = Returned(RequestUnmarshalResult(<< PathError >>, None, Absent, Absent), << >>)
        /\ iterated.called =>
            iterated.out = Yielded(<< PathError >>, << >>)

C1_Witness ==
    /\ ~Resolves
    /\ unmarshalled.called /\ iterated.called
    /\ cls.facet = "Parameters" /\ cls.family = "V31WebhookRequest"
    /\ Operation.parameters # << >> /\ Operation.requestBody.declared

\* C2: when the path resolves and no security alternative can be fully
\* satisfied, the full pipeline reports exactly one security error and
\* nothing else: unmarshal's errors is that one error with parameters, body
\* and security absent, iter_errors yields only that error, and the
\* parameter and body stages are not executed.
C2_SecurityErrorIsTerminal ==
    cls.facet = "Full" /\ Resolves /\ SecurityFails =>
        /\ unmarshalled.called =>
            /\ unmarshalled.out.raised = NoExc
            /\ Len(Result.errors) = 1 /\ IsSecurityFailure(Result.errors[1])
            /\ Result.body = None /\ Result.parameters = Absent /\ Result.security = Absent
            /\ StagesOf(unmarshalled.out.log) = {"security"}
        /\ iterated.called =>
            /\ iterated.out.raised = NoExc
            /\ Len(iterated.out.errors) = 1 /\ IsSecurityFailure(iterated.out.errors[1])
            /\ StagesOf(iterated.out.log) = {"security"}

\* a request that fails security and would also fail the parameter and the
\* body stage
C2_Witness ==
    /\ cls.facet = "Full" /\ Resolves /\ SecurityFails
    /\ unmarshalled.called /\ iterated.called
    /\ \E id \in DeclaredIdentities : ParamFails(id)
    /\ Operation.requestBody.declared /\ Operation.requestBody.required /\ request.body = ""

\* C3: validate and unmarshal never diverge in which errors are detectable:
\* the errors the full pipeline's iter_errors yields are, in order, the
\* errors of the full pipeline's unmarshal result, so validate raises exactly
\* when that list is non-empty and raises its first element; in particular
\* for a declared non-required body and an empty or absent payload.
C3_ModesAgree ==
    cls.facet = "Full" /\ unmarshalled.called /\ unmarshalled.out.raised = NoExc =>
        /\ iterated.called => iterated.out.errors = Result.errors
        /\ validated.called =>
            validated.raised = IF Result.errors = << >> THEN NoExc ELSE Result.errors[1]

\* a declared body that is not required and an empty payload: unmarshal
\* reports no error, iter_errors yields MissingRequestBody and validate
\* raises it
C3_Witness ==
    /\ cls.facet = "Full" /\ Resolves /\ SecurityPasses
    /\ Operation.requestBody.declared /\ ~Operation.requestBody.required
    /\ request.body \in {None, ""}
    /\ unmarshalled.called /\ iterated.called /\ validated.called
    /\ Result.errors = << >>
    /\ iterated.out.errors = << MissingRequestBody >>
    /\ validated.raised = MissingRequestBody

\* C4: in the full pipeline's parameter stage every (name, location)
\* identity is processed once, also when both the operation and the path
\* item declare it, and the operation's declaration governs: its schema and
\* required flag decide the value and the error, there is at most one value
\* and at most one error per identity, and a failing operation-level
\* declaration is not retried with the path-level one.
C4_OperationLevelGoverns ==
    cls.facet = "Full" /\ Resolves /\ SecurityPasses /\ unmarshalled.called /\ unmarshalled.out.raised = NoExc =>
        /\ Result.parameters # Absent
        /\ \A id \in DeclaredIdentities :
            /\ Cardinality(VisitsOf(unmarshalled.out.log, id)) = 1
            /\ Cardinality(ErrorsFor(Result.errors, id)) = IF ParamFails(id) THEN 1 ELSE 0
            /\ HasEntry(Result.parameters[1], id) <=> ParamValid(id)
            /\ ParamValid(id) =>
                Result.parameters[1][id[2]][id[1]] = Resolved(Governing(id), RawOf(id))

\* an identity declared at both levels whose raw value the operation's
\* schema rejects and the path item's schema would accept
C4_Witness ==
    /\ cls.facet = "Full" /\ Resolves /\ SecurityPasses /\ unmarshalled.called
    /\ \E id \in DeclaredIdentities :
        /\ Cardinality(Declaring(id)) = 2
        /\ RawPresent(id)
        /\ ~Acceptable(Governing(id), RawOf(id))
        /\ \E d \in Declaring(id) : Acceptable(d, RawOf(id))
        /\ Cardinality(ErrorsFor(Result.errors, id)) = 1

\* the parameter stage as the full pipeline runs it when security passes
\* and no body is declared
FullPipelineParameters ==
    _unmarshal([document EXCEPT !.security = Undeclared, !.operation.security = Undeclared, !.operation.requestBody = NoRequestBody], request, [Operation EXCEPT !.security = Undeclared, !.requestBody = NoRequestBody], document.path).result

\* C5: the parameters-only classes run the parameter stage of the full
\* pipeline: when the path resolves, the parameters-only unmarshaller's
\* parameters and errors and the parameters-only validator's errors are
\* those the full pipeline produces for the same request and contract when
\* security passes, also for an identity declared at both levels.
C5_ParametersOnlyAsFull ==
    cls.facet = "Parameters" /\ Resolves =>
        /\ unmarshalled.called =>
            /\ Result.parameters = FullPipelineParameters.parameters
            /\ Result.errors = FullPipelineParameters.errors
        /\ iterated.called =>
            iterated.out.errors = FullPipelineParameters.errors

\* an identity the operation declares as integer and the path item as
\* string, with a raw value only the string schema accepts: the
\* parameters-only unmarshaller resolves it under the path item's schema
C5_Witness ==
    /\ cls.facet = "Parameters" /\ Resolves /\ unmarshalled.called
    /\ \E id \in DeclaredIdentities :
        /\ Cardinality(Declaring(id)) = 2
        /\ RawPresent(id)
        /\ ~Acceptable(Governing(id), RawOf(id))
        /\ Result.errors = << >>
        /\ HasEntry(Result.parameters[1], id)
        /\ FullPipelineParameters.errors # << >>

\* C6: the parameters some of which fail and others succeed: the unmarshal
\* result's parameters are present and hold the resolved value of every
\* parameter that was there and valid, however many others failed and
\* whether they were declared before or after it, and errors has exactly
\* one error per failing parameter.
C6_PartialResultRetained ==
    cls.facet = "Full" /\ Resolves /\ SecurityPasses /\ unmarshalled.called /\ unmarshalled.out.raised = NoExc =>
        /\ Result.parameters # Absent
        /\ \A id \in DeclaredIdentities :
            ParamValid(id) =>
                /\ HasEntry(Result.parameters[1], id)
                /\ Result.parameters[1][id[2]][id[1]] = Resolved(Governing(id), RawOf(id))
        /\ Cardinality(ParameterErrorsIn(Result.errors)) = Cardinality({id \in DeclaredIdentities : ParamFails(id)})
        /\ \A id \in DeclaredIdentities :
            ParamFails(id) => Cardinality(ErrorsFor(Result.errors, id)) = 1

\* a failing parameter declared before a valid one
C6_Witness ==
    /\ cls.facet = "Full" /\ Resolves /\ SecurityPasses /\ unmarshalled.called
    /\ Len(Chain) = 2
    /\ ParamFails(Identity(Chain[1])) /\ ParamValid(Identity(Chain[2]))
    /\ Len(Result.errors) = 1
    /\ HasEntry(Result.parameters[1], Identity(Chain[2]))

\* the first alternative, in declaration order, all of whose schemes
\* yield, and the credential a scheme yields
FirstSatisfied == CHOOSE i \in SatisfiedAlternatives : \A j \in SatisfiedAlternatives : i <= j
Credential(s) == IF s \in document.securitySchemes THEN request.parameters.header[s] ELSE None

\* C7: security resolution returns the credentials of the first
\* alternative, in declaration order, every scheme of which yields: an
\* alternative with a failing scheme is abandoned for the next one, the
\* keys of the returned mapping are the scheme names of the chosen
\* alternative, and no later alternative is attempted, none of its
\* providers invoked.
C7_FirstSatisfiedAlternative ==
    cls.facet \in {"Full", "Security"} /\ Resolves /\ SecurityRequired /\ SatisfiedAlternatives # {} /\ unmarshalled.called =>
        LET chosen == EffectiveSecurity.alternatives[FirstSatisfied]
            log == unmarshalled.out.log
            marker == CHOOSE k \in EntriesOf(log, "alternative") : log[k][2] = FirstSatisfied
        IN  /\ Result.security # Absent
            /\ DOMAIN Result.security[1] = Range(chosen)
            /\ \A s \in Range(chosen) : Result.security[1][s] = Credential(s)
            /\ {log[k][2] : k \in EntriesOf(log, "alternative")} = 1..FirstSatisfied
            /\ Cardinality(EntriesOf(log, "alternative")) = FirstSatisfied
            /\ \A k \in EntriesOf(log, "provider") : k > marker => log[k][2] \in Range(chosen)

\* the first alternative is satisfied and a later one, of another scheme,
\* would be too
C7_Witness ==
    /\ cls.facet = "Full" /\ Resolves /\ SecurityRequired /\ unmarshalled.called
    /\ Len(EffectiveSecurity.alternatives) = 2
    /\ SatisfiedAlternatives = {1, 2}
    /\ Range(EffectiveSecurity.alternatives[2]) \cap document.securitySchemes # {}
    /\ Range(EffectiveSecurity.alternatives[1]) \cap Range(EffectiveSecurity.alternatives[2]) = {}
    /\ Result.security # Absent

\* the body stage runs: in the body-only classes, and in the full pipeline
\* after security passed
BodyStageRuns == Resolves /\ (cls.facet = "Body" \/ (cls.facet = "Full" /\ SecurityPasses))
EmptyPayload == request.body \in {None, ""}

\* C8: the operation declares a request body and the payload is empty or
\* absent: a required body is a MissingRequiredRequestBody error, in
\* unmarshal's errors and yielded by iter_errors; a body that is not
\* required is no error, unmarshal and iter_errors report no body error and
\* the result has no body.
C8_EmptyBody ==
    BodyStageRuns /\ Operation.requestBody.declared /\ EmptyPayload =>
        IF Operation.requestBody.required
        THEN /\ unmarshalled.called =>
                 {Result.errors[k] : k \in BodyErrorsIn(Result.errors)} = {MissingRequiredRequestBody}
             /\ iterated.called =>
                 {iterated.out.errors[k] : k \in BodyErrorsIn(iterated.out.errors)} = {MissingRequiredRequestBody}
        ELSE /\ unmarshalled.called =>
                 /\ unmarshalled.out.raised = NoExc
                 /\ BodyErrorsIn(Result.errors) = {}
                 /\ Result.body = None
             /\ iterated.called =>
                 /\ iterated.out.raised = NoExc
                 /\ BodyErrorsIn(iterated.out.errors) = {}

\* a body-only class, a declared body that is not required and an empty
\* payload: unmarshal reports no error, iter_errors yields
\* MissingRequestBody
C8_Witness ==
    /\ cls.facet = "Body" /\ Resolves
    /\ Operation.requestBody.declared /\ ~Operation.requestBody.required
    /\ request.body = ""
    /\ unmarshalled.called /\ iterated.called
    /\ Result.errors = << >> /\ Result.body = None
    /\ iterated.out.errors = << MissingRequestBody >>

\* C9: the operation declares no requestBody: the body stage gives no
\* error and no body, whatever payload and mimetype were sent, and the
\* payload is not handed to content negotiation, deserialization or
\* validation.
C9_UndeclaredBodyNotInspected ==
    BodyStageRuns /\ ~Operation.requestBody.declared =>
        /\ unmarshalled.called =>
            /\ unmarshalled.out.raised = NoExc
            /\ Result.body = None
            /\ BodyErrorsIn(Result.errors) = {}
            /\ "body" \in StagesOf(unmarshalled.out.log)
            /\ EntriesOf(unmarshalled.out.log, "negotiate") \cup EntriesOf(unmarshalled.out.log, "convert") = {}
        /\ iterated.called =>
            /\ iterated.out.raised = NoExc
            /\ BodyErrorsIn(iterated.out.errors) = {}
            /\ "body" \in StagesOf(iterated.out.log)
            /\ EntriesOf(iterated.out.log, "negotiate") \cup EntriesOf(iterated.out.log, "convert") = {}

\* a payload that would not validate, of a content type nothing accepts
C9_Witness ==
    /\ BodyStageRuns /\ ~Operation.requestBody.declared
    /\ request.body = "bad" /\ request.mimetype = "text/plain"
    /\ unmarshalled.called /\ iterated.called

\* the parameter stage runs: in the parameters-only classes, and in the
\* full pipeline after security passed
ParameterStageRuns == Resolves /\ (cls.facet = "Parameters" \/ (cls.facet = "Full" /\ SecurityPasses))

\* C10: a declared parameter the request has no raw value for: if
\* required, exactly one MissingRequiredParameter error with its name and
\* location is recorded and the following declarations are still
\* processed; if not required, it is skipped, with no entry in the
\* validated parameters and no error.
C10_MissingParameter ==
    ParameterStageRuns /\ unmarshalled.called /\ unmarshalled.out.raised = NoExc =>
        /\ Result.parameters # Absent
        /\ \A id \in DeclaredIdentities :
            /\ VisitsOf(unmarshalled.out.log, id) # {}
            /\ ~RawPresent(id) /\ (\A d \in Declaring(id) : d.required) =>
                /\ {Result.errors[k] : k \in ErrorsFor(Result.errors, id)} = {MissingRequiredParameter(id[1], id[2])}
                /\ Cardinality(ErrorsFor(Result.errors, id)) = 1
                /\ ~HasEntry(Result.parameters[1], id)
            /\ ~RawPresent(id) /\ (\A d \in Declaring(id) : ~d.required) =>
                /\ ErrorsFor(Result.errors, id) = {}
                /\ ~HasEntry(Result.parameters[1], id)

\* a required parameter without a raw value, declared before one that
\* resolves
C10_Witness ==
    /\ ParameterStageRuns /\ unmarshalled.called
    /\ Len(Chain) = 2
    /\ ~RawPresent(Identity(Chain[1])) /\ Chain[1].required
    /\ Result.errors = << MissingRequiredParameter(Chain[1].name, Chain[1].in) >>
    /\ HasEntry(Result.parameters[1], Identity(Chain[2]))

\* the loop variables of _get_parameters after its first k iterations over
\* the descriptors in order
AfterIterations(order, k) ==
    _get_parameters_loop(request.parameters, SubSeq(order, 1, k), 1, [errors |-> << >>, seen |-> {}, validated |-> Parameters, log |-> << >>])

\* the orders in which the classes hand the descriptors to the loop
IterationOrders == {Chain, document.path.parameters \o Operation.parameters}

\* every entry of params is the resolved value of a declared parameter
\* the request carries, stored under the declared location, and no error
\* is recorded for it
EntriesJustified(params, errors) ==
    \A loc \in Locations : \A name \in DOMAIN params[loc] :
        /\ <<name, loc>> \in DeclaredIdentities
        /\ RawPresent(<<name, loc>>)
        /\ \E d \in Declaring(<<name, loc>>) :
            /\ Acceptable(d, RawOf(<<name, loc>>))
            /\ params[loc][name] = Resolved(d, RawOf(<<name, loc>>))
        /\ ErrorsFor(errors, <<name, loc>>) = {}

\* C11: at every point of the parameter stage and in the final result,
\* validated[location][name] exists only if the parameter (name, location)
\* was in the request and passed deserialization, casting and validation;
\* a parameter that was missing or failed has no entry, and an entry is
\* stored under the location its descriptor declares.
C11_ValidatedOnlyHoldsValid ==
    unmarshalled.called /\ Result.parameters # Absent =>
        /\ \A order \in IterationOrders : \A k \in 0..Len(order) :
            Let(AfterIterations(order, k), LAMBDA st : EntriesJustified(st.validated, st.errors))
        /\ EntriesJustified(Result.parameters[1], Result.errors)
        /\ \A id \in DeclaredIdentities :
            ErrorsFor(Result.errors, id) # {} \/ ~RawPresent(id) => ~HasEntry(Result.parameters[1], id)

\* the URL /pets/abc against an integer path parameter id: one error for
\* id, no id among the validated path parameters
C11_Witness ==
    /\ cls.facet = "Full" /\ Resolves /\ unmarshalled.called
    /\ request.target = "/pets/abc"
    /\ request.parameters.path = [id |-> "abc"]
    /\ \E d \in Range(Chain) : d.name = "id" /\ d.in = "path" /\ d.schema = "integer"
    /\ ErrorsFor(Result.errors, <<"id", "path">>) = {1}
    /\ Result.parameters # Absent
    /\ ~HasEntry(Result.parameters[1], <<"id", "path">>)

\* the positions of Chain at which the loop meets an identity for the first
\* time, and those among them whose parameter fails
FirstPositions == {k \in DOMAIN Chain : \A j \in 1..(k - 1) : Identity(Chain[j]) # Identity(Chain[k])}
FailingPositions == {k \in FirstPositions : ParamFails(Identity(Chain[k]))}
NthFailing(i) == CHOOSE p \in FailingPositions : Cardinality({q \in FailingPositions : q < p}) = i - 1

\* errors starts with one error per failing parameter, in the order
\* operation-declared, then path-declared
ParameterErrorsFirst(errors) ==
    /\ Len(errors) >= Cardinality(FailingPositions)
    /\ \A i \in 1..Cardinality(FailingPositions) :
        /\ IsInstance(errors[i], ParameterValidationError)
        /\ <<errors[i].name, errors[i].location>> = Identity(Chain[NthFailing(i)])

\* the body stage fails for the request, or resolves a body
BodyFails ==
    /\ Operation.requestBody.declared
    /\ IF EmptyPayload THEN Operation.requestBody.required
       ELSE \/ request.mimetype \notin Operation.requestBody.content /\ "*/*" \notin Operation.requestBody.content
            \/ request.body = "bad"
BodyResolves == Operation.requestBody.declared /\ ~EmptyPayload /\ ~BodyFails

\* errors ends, after the parameter errors, with the one body error
BodyErrorLast(errors) ==
    /\ Len(errors) = Cardinality(FailingPositions) + 1
    /\ IsInstance(errors[Len(errors)], RequestBodyValidationError)

\* C12: once security passes, the parameter stage and the body stage run
\* independently: a parameter failure does not keep the body from being
\* resolved and reported, a body failure does not remove the validated
\* parameters or the parameter errors, and when both fail errors is all
\* parameter errors, operation-declared then path-declared, followed by
\* the single body error.
C12_ParametersAndBodyIndependent ==
    cls.facet = "Full" /\ Resolves /\ SecurityPasses =>
        /\ unmarshalled.called =>
            /\ unmarshalled.out.raised = NoExc
            /\ StagesOf(unmarshalled.out.log) = {"security", "parameters", "body"}
            /\ ParameterErrorsFirst(Result.errors)
            /\ IF BodyFails THEN BodyErrorLast(Result.errors) /\ Result.body = None
               ELSE Len(Result.errors) = Cardinality(FailingPositions)
            /\ BodyResolves => Result.body = "obj:" \o request.body
            /\ Result.parameters # Absent
            /\ \A id \in DeclaredIdentities : HasEntry(Result.parameters[1], id) <=> ParamValid(id)
        /\ iterated.called =>
            /\ iterated.out.raised = NoExc
            /\ StagesOf(iterated.out.log) = {"security", "parameters", "body"}
            /\ ParameterErrorsFirst(iterated.out.errors)
            /\ Len(iterated.out.errors) <= Cardinality(FailingPositions) + 1
            /\ BodyFails => BodyErrorLast(iterated.out.errors)

\* an operation-declared and a path-declared parameter fail and the body
\* is of a content type the operation does not accept
C12_Witness ==
    /\ cls.facet = "Full" /\ Resolves /\ SecurityPasses
    /\ unmarshalled.called /\ iterated.called
    /\ FailingPositions = {1, 2}
    /\ Operation.parameters # << >> /\ document.path.parameters # << >>
    /\ BodyFails /\ request.body = "ok"
    /\ Len(Result.errors) = 3
    /\ iterated.out.errors = Result.errors

\* C13: unmarshal returns a result and never raises: every failure of the
\* path, security, parameter or body stage (a non-required missing body, a
\* required missing body, an unsupported content type, a missing required
\* parameter among them) is an entry of the result's errors or a non-error
\* outcome, and no exception reaches the caller.
C13_UnmarshalNeverRaises ==
    unmarshalled.called =>
        /\ unmarshalled.out.raised = NoExc
        /\ ~Resolves => Result.errors = << PathError >>
        /\ Resolves /\ cls.facet \in {"Full", "Security"} /\ SecurityFails =>
            \E k \in DOMAIN Result.errors : IsSecurityFailure(Result.errors[k])
        /\ BodyStageRuns /\ BodyFails =>
            Cardinality(BodyErrorsIn(Result.errors)) = 1
        /\ BodyStageRuns /\ ~BodyFails =>
            BodyErrorsIn(Result.errors) = {}
        /\ ParameterStageRuns =>
            \A id \in DeclaredIdentities :
                ~RawPresent(id) /\ (\A d \in Declaring(id) : d.required) =>
                    Cardinality(ErrorsFor(Result.errors, id)) = 1

\* a missing required parameter and a body of an unsupported content type
C13_Witness ==
    /\ cls.facet = "Full" /\ Resolves /\ SecurityPasses /\ unmarshalled.called
    /\ \E id \in DeclaredIdentities : ~RawPresent(id) /\ Governing(id).required
    /\ Operation.requestBody.declared /\ request.body = "ok"
    /\ request.mimetype \notin Operation.requestBody.content /\ "*/*" \notin Operation.requestBody.content
    /\ unmarshalled.out.raised = NoExc
    /\ Result.errors[Len(Result.errors)].cause = "MediaTypeNotFound"

\* C14: unmarshal is idempotent: called again on the same request object
\* it yields the same errors, body, parameters and security, also when the
\* first call filled request.parameters.path in place from the path
\* variables, and it leaves request.parameters.path as the first call left
\* it.
C14_UnmarshalIdempotent ==
    unmarshalled.called =>
        Let(unmarshal(document, cls, request), LAMBDA again :
            /\ again.out.raised = unmarshalled.out.raised
            /\ again.out.result = Result
            /\ again.request.parameters.path = request.parameters.path
            /\ again.request = request)

\* a request that came without path parameters and whose path the first
\* call filled in from the URL
C14_Witness ==
    /\ Resolves /\ unmarshalled.called
    /\ request.target = "/pets/42"
    /\ request.parameters.path = [id |-> "42"]
    /\ Result.parameters # Absent
    /\ HasEntry(Result.parameters[1], <<"id", "path">>)
    /\ Result.parameters[1].path["id"] = "int:42"

\* the security stage runs: in the security-only classes and in the full
\* pipeline
SecurityStageRuns == Resolves /\ cls.facet \in {"Full", "Security"}

\* the scheme names a security requirement lists
SchemesOf(security) == UNION {Range(security.alternatives[i]) : i \in DOMAIN security.alternatives}

\* C15: the security requirement in force is the operation's whenever the
\* operation declares `security`, also beside a document-level one,
\* otherwise the document's, otherwise none; with none in force (none
\* declared, or the one in force empty) security resolution returns an
\* empty mapping and no error and invokes no provider.
C15_EffectiveSecurity ==
    SecurityStageRuns /\ unmarshalled.called =>
        LET required == IF Operation.security.declared THEN Operation.security
                        ELSE IF document.security.declared THEN document.security
                        ELSE Undeclared
            log == unmarshalled.out.log
            satisfied == {i \in DOMAIN required.alternatives : AlternativeSucceeds(required.alternatives[i])}
        IN  IF ~required.declared \/ required.alternatives = << >>
            THEN /\ Result.security = Some(EmptyMap)
                 /\ \A k \in DOMAIN Result.errors : ~IsInstance(Result.errors[k], SecurityValidationError)
                 /\ EntriesOf(log, "provider") = {}
                 /\ EntriesOf(log, "alternative") = {}
            ELSE /\ {log[k][2] : k \in EntriesOf(log, "provider")} \subseteq SchemesOf(required)
                 /\ {log[k][2] : k \in EntriesOf(log, "alternative")} \subseteq DOMAIN required.alternatives
                 /\ Result.security = Absent <=> satisfied = {}
                 /\ satisfied = {} => Len(Result.errors) = 1 /\ IsSecurityFailure(Result.errors[1])
                 /\ satisfied # {} =>
                     \E i \in satisfied : DOMAIN Result.security[1] = Range(required.alternatives[i])

\* the document requires k1, the operation declares an empty requirement,
\* and the request carries no k1
C15_Witness ==
    /\ SecurityStageRuns /\ unmarshalled.called
    /\ document.security = NeedsK1
    /\ Operation.security.declared /\ Operation.security.alternatives = << >>
    /\ "k1" \notin DOMAIN request.parameters.header
    /\ Result.security = Some(EmptyMap)

\* the error carries the scheme names of every alternative of the
\* requirement in force, in declaration order
CarriesAttempted(e) ==
    /\ IsSecurityFailure(e)
    /\ e.schemes = EffectiveSecurity.alternatives

\* every alternative of the requirement in force was tried, once
AllAlternativesTried(log) ==
    /\ {log[k][2] : k \in EntriesOf(log, "alternative")} = DOMAIN EffectiveSecurity.alternatives
    /\ Cardinality(EntriesOf(log, "alternative")) = Len(EffectiveSecurity.alternatives)

\* C16: when no security alternative fully succeeds, security resolution
\* fails with SecurityNotFound carrying the scheme-name combinations
\* attempted: one entry per alternative of the requirement in force, in
\* declaration order, each the alternative's scheme names; and it is raised
\* only after every alternative has been tried.
C16_SecurityNotFoundCarriesAttempts ==
    SecurityStageRuns /\ SecurityFails =>
        /\ unmarshalled.called =>
            /\ Len(Result.errors) = 1
            /\ CarriesAttempted(Result.errors[1])
            /\ AllAlternativesTried(unmarshalled.out.log)
        /\ iterated.called =>
            /\ Len(iterated.out.errors) = 1
            /\ CarriesAttempted(iterated.out.errors[1])
            /\ AllAlternativesTried(iterated.out.log)

\* two different alternatives, the second of two schemes, both failing
C16_Witness ==
    /\ SecurityStageRuns /\ SecurityFails
    /\ unmarshalled.called /\ iterated.called
    /\ Len(EffectiveSecurity.alternatives) = 2
    /\ Len(EffectiveSecurity.alternatives[1]) = 1
    /\ Len(EffectiveSecurity.alternatives[2]) = 2
    /\ Result.errors[1].schemes = EffectiveSecurity.alternatives

\* C17: validate is the fail-fast wrapper of iter_errors: it raises the
\* first error of the sequence iter_errors produces for the request and
\* returns silently exactly when that sequence is empty; terminal stages
\* coming first, a path error is raised in preference to everything and a
\* security error in preference to any parameter or body error.
C17_ValidateRaisesFirst ==
    validated.called =>
        /\ iterated.called /\ iterated.out.raised = NoExc =>
            /\ iterated.out.errors # << >> => validated.raised = iterated.out.errors[1]
            /\ iterated.out.errors = << >> <=> validated.raised = NoExc
        /\ ~Resolves => validated.raised = PathError
        /\ SecurityStageRuns /\ SecurityFails => IsSecurityFailure(validated.raised)
        /\ cls.facet = "Full" /\ Resolves /\ SecurityPasses /\ FailingPositions # {} =>
            /\ IsInstance(validated.raised, ParameterValidationError)
            /\ <<validated.raised.name, validated.raised.location>> = Identity(Chain[NthFailing(1)])

\* iter_errors yields a parameter error and then a body error; validate
\* raises the parameter error
C17_Witness ==
    /\ cls.facet = "Full" /\ Resolves /\ SecurityPasses
    /\ validated.called /\ iterated.called
    /\ Len(iterated.out.errors) >= 2
    /\ IsInstance(iterated.out.errors[Len(iterated.out.errors)], RequestBodyValidationError)
    /\ IsInstance(validated.raised, ParameterValidationError)
    /\ validated.raised = iterated.out.errors[1]

\* a list of descriptors with the deprecated flag of each turned over, and
\* the document with the flag of every descriptor turned over
WithDeprecatedFlipped(params) == [k \in DOMAIN params |-> [params[k] EXCEPT !.deprecated = ~@]]
DocumentWithDeprecatedFlipped ==
    [document EXCEPT !.operation.parameters = WithDeprecatedFlipped(@), !.path.parameters = WithDeprecatedFlipped(@)]

\* the notices a call emitted
Notices(log) == {log[k][2] : k \in EntriesOf(log, "warn")}

\* C19: a deprecation notice is advisory: marking a descriptor deprecated
\* does not change the request's outcome. The errors and the validated
\* parameters are the same whether the descriptor has deprecated true or
\* false, and the notice is not an element of the errors.
C19_DeprecationIsAdvisory ==
    /\ unmarshalled.called =>
        /\ Let(unmarshal(DocumentWithDeprecatedFlipped, cls, request).out, LAMBDA other :
                /\ other.raised = unmarshalled.out.raised
                /\ other.result = Result)
        /\ \A k \in DOMAIN Result.errors : Result.errors[k].cause # "DeprecationWarning" /\ Result.errors[k].type # "DeprecationWarning"
        /\ Notices(unmarshalled.out.log) \subseteq {d.name : d \in {x \in Range(Chain) : x.deprecated}}
    /\ iterated.called =>
        Let(iter_errors(DocumentWithDeprecatedFlipped, cls, request).out, LAMBDA other :
            /\ other.raised = iterated.out.raised
            /\ other.errors = iterated.out.errors)

\* a deprecated parameter the request carries a valid value for: a notice,
\* an entry, no error
C19_Witness ==
    /\ ParameterStageRuns /\ unmarshalled.called /\ iterated.called
    /\ \E d \in Range(Chain) :
        /\ d.deprecated
        /\ ParamValid(Identity(d))
        /\ HasEntry(Result.parameters[1], Identity(d))
        /\ d.name \in Notices(unmarshalled.out.log)
    /\ Result.errors = << >>

\* scheme names the document does not declare under securitySchemes
Unknown(s) == s \notin document.securitySchemes

\* C20: a scheme name listed in an alternative and not declared under the
\* contract's security schemes is tolerated: looking it up raises nothing
\* and gives no credential (an absent value under that name), so an
\* unknown name alone never has its alternative abandoned nor
\* SecurityNotFound raised, and no provider is invoked for it.
C20_UnknownSchemeTolerated ==
    SecurityStageRuns /\ SecurityRequired /\ unmarshalled.called =>
        LET alts == EffectiveSecurity.alternatives
            log == unmarshalled.out.log
        IN  /\ unmarshalled.out.raised = NoExc
            /\ \A k \in EntriesOf(log, "provider") : ~Unknown(log[k][2])
            /\ Result.security # Absent =>
                \A s \in DOMAIN Result.security[1] : Unknown(s) => Result.security[1][s] = None
            /\ Result.security = Absent =>
                \A i \in DOMAIN alts : \E s \in Range(alts[i]) : ~Unknown(s) /\ s \notin DOMAIN request.parameters.header
            /\ (\E i \in DOMAIN alts : \A s \in Range(alts[i]) : Unknown(s)) =>
                /\ Result.security # Absent
                /\ \A k \in DOMAIN Result.errors : ~IsInstance(Result.errors[k], SecurityValidationError)

\* the first alternative fails for want of k1, the second lists an unknown
\* name beside k2, which the request carries: it is chosen
C20_Witness ==
    /\ SecurityStageRuns /\ unmarshalled.called
    /\ EffectiveSecurity.declared
    /\ EffectiveSecurity.alternatives = << <<"k1">>, <<"ghost", "k2">> >>
    /\ DOMAIN request.parameters.header = {"k2"}
    /\ Result.security # Absent
    /\ DOMAIN Result.security[1] = {"ghost", "k2"}
    /\ Result.security[1]["ghost"] = None
    /\ Result.security[1]["k2"] = "s3cr3t"

\* C18: the pipeline is stateless across requests: when one orchestrator
\* processes several request objects with their stages interleaved in any
\* order, each request's result is what it is when the request is
\* processed alone; the working state of a call (seen identities, errors,
\* validated parameters) is not shared between calls and the contract
\* document is read, never modified.
C18_StatelessAcrossRequests ==
    [][/\ document' = document
       /\ \A n \in Invocations :
            /\ inflight[n].pc # "done" /\ inflight'[n].pc = "done" =>
                Let(unmarshal(document, cls, inflight[n].request0), LAMBDA alone :
                    /\ inflight'[n].out = alone.out
                    /\ inflight'[n].request = alone.request)
            /\ inflight[n].pc = "done" => inflight'[n] = inflight[n]]_vars

\* two calls in progress, both past the first iteration of the parameter
\* loop, on requests with different parameters
C18_Witness ==
    /\ inflight # NoInvocations
    /\ inflight[1].pc = "parameters" /\ inflight[1].i = 2
    /\ inflight[2].pc = "done"
    /\ inflight[2].out.result.parameters # Absent
    /\ inflight[1].request0 # inflight[2].request0
    /\ inflight[1].st.seen # {}

\* what a call leaves alone in the request it is handed: the URL, the body,
\* the media type, and the query, header and cookie mappings
OnlyPathMayChange(before, after) ==
    /\ after.target = before.target
    /\ after.body = before.body
    /\ after.mimetype = before.mimetype
    /\ \A l \in Locations \ {"path"} : after.parameters[l] = before.parameters[l]

\* request.parameters.path or variables, as the claim states it
SuppliedOr(before, variables) ==
    IF before.parameters.path # EmptyMap THEN before.parameters.path ELSE variables

\* C21 as stated: every call of every pipeline leaves the request as it was
\* but for request.parameters.path, which after a successful path
\* resolution is the caller-supplied mapping when that was non-empty and
\* the variables extracted from the URL otherwise; when resolution fails
\* the request is unchanged.
C21_OnlyPathPopulated ==
    [][/\ OnlyPathMayChange(request, request')
       /\ ~Resolves => request' = request
       /\ Resolves => request'.parameters.path = SuppliedOr(request, _find_path(document, cls, request).value.variables)]_vars

\* C21, amended: as above for every unmarshaller and for the full and the
\* parameters-only validator; the body-only and the security-only validator
\* resolve the path and leave the request entirely unchanged.
C21_OnlyPathPopulatedWherePopulated ==
    [][/\ OnlyPathMayChange(request, request')
       /\ ~Resolves => request' = request
       /\ Resolves /\ (unmarshalled' # unmarshalled \/ cls.facet \in {"Full", "Parameters"}) =>
            request'.parameters.path = SuppliedOr(request, _find_path(document, cls, request).value.variables)
       /\ Resolves /\ unmarshalled' = unmarshalled /\ cls.facet \in {"Body", "Security"} =>
            request' = request]_vars

\* a call has resolved /pets/42 for a caller that supplied no path mapping
\* and has left the extracted id in the request beside its untouched query
C21_Witness ==
    /\ unmarshalled.called \/ iterated.called \/ validated.called
    /\ Resolves
    /\ request.target = "/pets/42"
    /\ request.parameters.path = [id |-> "42"]
    /\ request.parameters.cookie = EmptyMap

\* the stage a partial class runs, and the errors of that stage
OwnStage == CASE cls.facet = "Body" -> "body" [] cls.facet = "Parameters" -> "parameters" [] cls.facet = "Security" -> "security" [] OTHER -> "all"
OwnErrors ==
    CASE cls.facet = "Body" -> RequestBodyValidationError
      [] cls.facet = "Parameters" -> ParameterValidationError
      [] cls.facet = "Security" -> SecurityValidationError
      [] OTHER -> {}

\* C22: a partial class runs only its own stage after path resolution and
\* fills only its own field of the result: BodyOnly leaves parameters and
\* security absent, ParametersOnly leaves body and security absent,
\* SecurityOnly leaves body and parameters absent; BodyOnly and
\* ParametersOnly never run the security stage, so they report the body or
\* the parameters also for a request that fails security in the full
\* pipeline, and errors holds errors of the class's own stage only.
C22_PartialRunsOwnStage ==
    cls.facet # "Full" /\ Resolves =>
        /\ unmarshalled.called =>
            /\ unmarshalled.out.raised = NoExc
            /\ StagesOf(unmarshalled.out.log) = {OwnStage}
            /\ \A k \in DOMAIN Result.errors : IsInstance(Result.errors[k], OwnErrors)
            /\ cls.facet = "Body" =>
                /\ Result.parameters = Absent /\ Result.security = Absent
                /\ BodyResolves => Result.body = "obj:" \o request.body /\ Result.errors = << >>
                /\ BodyFails => Result.body = None /\ Len(Result.errors) = 1
                /\ ~BodyFails /\ ~BodyResolves => Result.body = None /\ Result.errors = << >>
            /\ cls.facet = "Parameters" =>
                /\ Result.body = None /\ Result.security = Absent
                /\ Result.parameters # Absent
                /\ \A id \in {d \in DeclaredIdentities : Cardinality(Declaring(d)) = 1} :
                    /\ HasEntry(Result.parameters[1], id) <=> ParamValid(id)
                    /\ ErrorsFor(Result.errors, id) # {} <=> ParamFails(id)
            /\ cls.facet = "Security" =>
                /\ Result.body = None /\ Result.parameters = Absent
                /\ IF SecurityFails
                   THEN Result.security = Absent /\ Len(Result.errors) = 1
                   ELSE Result.security # Absent /\ Result.errors = << >>
        /\ iterated.called =>
            /\ iterated.out.raised = NoExc
            /\ StagesOf(iterated.out.log) = {OwnStage}
            /\ \A k \in DOMAIN iterated.out.errors : IsInstance(iterated.out.errors[k], OwnErrors)

\* the request carries no credential for the operation's requirement and
\* the body-only unmarshaller returns its converted body
C22_Witness ==
    /\ cls.facet = "Body" /\ Resolves
    /\ SecurityFails
    /\ unmarshalled.called /\ iterated.called
    /\ request.body = "ok"
    /\ Result.body = "obj:ok"
    /\ Result.errors = << >>
    /\ Result.parameters = Absent /\ Result.security = Absent

\* the request is an API call to a URL one of the contract's server paths
\* matches, or a delivery of a webhook the contract declares; an API-call
\* class is served by the first, a webhook class by the second
Served ==
    IF cls.family = "V31WebhookRequest" THEN request.target \in document.webhooks
    ELSE \E t \in document.paths : Matches(t, request.target)

\* a call's errors are the one PathError
IsPathError(errors) == Len(errors) = 1 /\ errors[1] = PathError

\* C23: the finder is fixed by the orchestrator's class and matches the
\* kind of request the class serves: every API-call class, of both
\* dialects, resolves the request against the contract's server paths, and
\* only the webhook classes resolve it against the contract's webhooks.
C23_FinderMatchesRequestKind ==
    /\ unmarshalled.called \/ iterated.called =>
        (path_finder_cls(cls) = "WebhookPathFinder" <=> cls.family = "V31WebhookRequest")
    /\ unmarshalled.called =>
        (IsPathError(Result.errors) <=> ~Served)
    /\ iterated.called =>
        (IsPathError(iterated.out.errors) <=> ~Served)

\* the full validator/unmarshaller of the second dialect is handed an API
\* call to a declared server path and answers with a PathError
C23_Witness ==
    /\ cls = Cls("V31Request", "Full")
    /\ request.target = "/pets"
    /\ Served
    /\ unmarshalled.called /\ iterated.called
    /\ IsPathError(Result.errors)
    /\ IsPathError(iterated.out.errors)

====
